---- MODULE Spec2Model ----
(***************************************************************************)
(* Storage core of go-rdbms: the slotted heap page (package storage) and   *)
(* the page file manager (package pager).                                  *)
(*                                                                         *)
(* Byte buffers are sequences of 0..255; Go's index i is element i+1.      *)
(* uint16 arithmetic is taken modulo 2^16 as the Go compiler does.         *)
(***************************************************************************)
EXTENDS Integers, Sequences, FiniteSets, TLC

VARIABLES
    buf,      \* HeapPage.buf: the page buffer the heap page wraps
    pre,      \* the buffer as it was when the last heap-page call started
              \* (after construction: the constructed page)
    last,     \* the last heap-page call: its name, arguments and results
    issued,   \* the slot IDs used by the successful insertions, in order
    file,     \* the bytes of the backing file at the path
    pager,    \* the Pager handle: its file (nil, open, closed) and pageSize
    mu,       \* Pager.mu: the thread holding it, or NoThread
    th,       \* per thread: the call in progress, its position and locals
    watch     \* history: one completed WritePage, picked freely, whose bytes
              \* no later WritePage has touched, and what happened since

heapVars == <<buf, pre, last, issued>>

pagerVars == <<file, pager, mu, th, watch>>

vars == <<buf, pre, last, issued, file, pager, mu, th, watch>>

----------------------------------------------------------------------------
(* Bounds of the model *)

\* length of the page buffer handed to NewHeapPage
BufLen == 21
\* longest record of the small records
MaxRecLen == 2
\* slot IDs passed to Get/Delete/Update are drawn from -1..MaxSlotArg
MaxSlotArg == 2

----------------------------------------------------------------------------
(* Program constants *)

hdrSize == 8
slotSize == 4
\* number of values of a uint16
TwoTo16 == 65536

\* conversion to uint16 and uint16 wrap-around
U16(x) == x % TwoTo16

Min(a, b) == IF a < b THEN a ELSE b

----------------------------------------------------------------------------
(* Records handed to Insert/Update.  A record is a byte string; it is      *)
(* given by its length n and a pattern pat repeated to that length, so a   *)
(* record longer than 65535 bytes is a small value.                        *)

RecLen(rec) == rec.n

\* rec[i], Go index i in 0..len(rec)-1
RecAt(rec, i) == rec.pat[(i % Len(rec.pat)) + 1]

\* the byte patterns of the records
Patterns == {<<1, 2>>, <<3>>}

\* the pattern of the record of 0xFF bytes
Ones == <<255>>

\* the first bytes of the records of each pattern, as many as a buffer
\* takes
PatBytes ==
    [p \in Patterns \cup {Ones} |->
        [k \in 1..(TwoTo16 - 1) |-> RecAt([n |-> TwoTo16, pat |-> p], k - 1)]]

EmptyRecord == [n |-> 0, pat |-> <<3>>]

SmallRecords ==
    {EmptyRecord} \cup {[n |-> k, pat |-> p] : k \in 1..MaxRecLen, p \in Patterns}

\* lengths around the range of a uint16: len+slotSize wraps to 0, len is
\* the largest uint16, len wraps to 0, len wraps to 1
LongLens == {TwoTo16 - slotSize, TwoTo16 - 1, TwoTo16, TwoTo16 + 1}

LongRecords == {[n |-> k, pat |-> <<1, 2>>] : k \in LongLens}

Records == SmallRecords \cup LongRecords

\* records for which need wraps to less than slotSize: one that reaches
\* down into freeStart, one that reaches into slotCount, and one that
\* reaches over all of the header, two of them of 0xFF bytes
NearRecords ==
    {[n |-> TwoTo16 - 3, pat |-> Ones],
     [n |-> TwoTo16 - 2, pat |-> <<1, 2>>],
     [n |-> TwoTo16 - 1, pat |-> Ones]}

\* the bytes of a record as a sequence (used on short results only)
SameBytes(bytes, rec) ==
    /\ Len(bytes) = RecLen(rec)
    /\ \A i \in 1..Len(bytes) : bytes[i] = RecAt(rec, i - 1)

----------------------------------------------------------------------------
(* encoding/binary.LittleEndian on a buffer *)

Uint16(b, i) == b[i + 1] + 256 * b[i + 2]

PutUint16(b, i, v) ==
    [b EXCEPT ![i + 1] = v % 256, ![i + 2] = v \div 256]

(* header accessors *)
slotCount(b) == Uint16(b, 0)
freeStart(b) == Uint16(b, 2)
freeEnd(b) == Uint16(b, 4)
flags(b) == Uint16(b, 6)
setSlotCount(b, v) == PutUint16(b, 0, v)
setFreeStart(b, v) == PutUint16(b, 2, v)
setFreeEnd(b, v) == PutUint16(b, 4, v)
setFlags(b, v) == PutUint16(b, 6, v)

\* slot(i): <<off, ln, ok>>; "panic" when the entry lies outside the buffer
slot(b, i) ==
    IF i < 0 \/ i >= slotCount(b)
    THEN [off |-> 0, ln |-> 0, ok |-> FALSE, panic |-> FALSE]
    ELSE LET base == hdrSize + i * slotSize
         IN IF base + 4 > Len(b)
            THEN [off |-> 0, ln |-> 0, ok |-> FALSE, panic |-> TRUE]
            ELSE [off |-> Uint16(b, base), ln |-> Uint16(b, base + 2),
                  ok |-> TRUE, panic |-> FALSE]

\* setSlot(i, off, ln): the buffer afterwards, and whether it panicked
setSlot(b, i, off, ln) ==
    LET base == hdrSize + i * slotSize
    IN IF i < 0 \/ i > slotCount(b)
       THEN [buf |-> b, panic |-> TRUE]
       ELSE IF base + 2 > Len(b)
       THEN [buf |-> b, panic |-> TRUE]
       ELSE IF base + 4 > Len(b)
       THEN [buf |-> PutUint16(b, base, off), panic |-> TRUE]
       ELSE [buf |-> PutUint16(PutUint16(b, base, off), base + 2, ln),
             panic |-> FALSE]

freeSpace(b) ==
    LET fs == freeEnd(b) - freeStart(b)
    IN IF fs < 0 THEN 0 ELSE U16(fs)

\* copy(b[lo:hi], rec): min(hi-lo, len(rec)) bytes of rec written at lo
copy(b, lo, hi, rec) ==
    LET n == Min(hi - lo, RecLen(rec))
    IN SubSeq(b, 1, lo) \o SubSeq(PatBytes[rec.pat], 1, n)
         \o SubSeq(b, lo + n + 1, Len(b))

----------------------------------------------------------------------------
(* NewHeapPage: the buffer after construction (len(buf) >= hdrSize) *)

\* a slip: the header is written without looking at it first
NewHeapPage_AlwaysInit(b) ==
    setFlags(setFreeEnd(setFreeStart(setSlotCount(b, 0), hdrSize),
                        U16(Len(b))), 0)

NewHeapPage(b) ==
    IF slotCount(b) = 0 /\ freeStart(b) = 0 /\ freeEnd(b) = 0
    THEN setFlags(setFreeEnd(setFreeStart(setSlotCount(b, 0), hdrSize),
                             U16(Len(b))), 0)
    ELSE b

(* Insert: the buffer afterwards, the slot ID returned, and the outcome:   *)
(* "ok", "PageFull" (the error return) or "panic" (a run-time panic)       *)

\* need := uint16(len(rec)) + slotSize
need(rec) == U16(U16(RecLen(rec)) + slotSize)

\* Insert once the fullness test has passed
InsertStore(b, rec) ==
    LET newEnd == U16(freeEnd(b) - U16(RecLen(rec)))
    IN IF newEnd > freeEnd(b) \/ freeEnd(b) > Len(b)
       THEN \* slice bounds out of range in p.buf[newEnd:p.freeEnd()]
            [buf |-> b, slot |-> -1, res |-> "panic"]
       ELSE
         LET b1 == copy(b, newEnd, freeEnd(b), rec)
             slotID == slotCount(b1)
             b2 == setSlotCount(b1, U16(slotCount(b1) + 1))
             b3 == setFreeStart(b2, U16(freeStart(b2) + slotSize))
             s4 == setSlot(b3, slotID, newEnd, U16(RecLen(rec)))
         IN IF s4.panic
            THEN [buf |-> s4.buf, slot |-> -1, res |-> "panic"]
            ELSE [buf |-> setFreeEnd(s4.buf, newEnd), slot |-> slotID,
                  res |-> "ok"]

\* a slip: the slot count is bumped before the fullness test
Insert_CountBeforeTest(b, rec) ==
    LET b0 == setSlotCount(b, U16(slotCount(b) + 1))
    IN IF freeSpace(b) < need(rec)
       THEN [buf |-> b0, slot |-> -1, res |-> "PageFull"]
       ELSE InsertStore(b, rec)

\* a slip: the first tombstoned slot is handed out again
Insert_ReuseTombstone(b, rec) ==
    LET dead == {i \in 0..(slotCount(b) - 1) : slot(b, i).ok /\ slot(b, i).ln = 0}
        r == InsertStore(b, rec)
    IN IF freeSpace(b) < need(rec)
       THEN [buf |-> b, slot |-> -1, res |-> "PageFull"]
       ELSE IF dead = {} \/ r.res # "ok" THEN r
       ELSE LET i == CHOOSE i \in dead : \A j \in dead : i <= j
                newEnd == freeEnd(r.buf)
                t == setSlot(b, i, newEnd, U16(RecLen(rec)))
            IN [buf |-> setFreeEnd(copy(t.buf, newEnd, freeEnd(b), rec), newEnd),
                slot |-> i, res |-> "ok"]

Insert(b, rec) ==
    IF freeSpace(b) < need(rec)
    THEN [buf |-> b, slot |-> -1, res |-> "PageFull"]
    ELSE InsertStore(b, rec)

(* Get: the bytes returned and the found flag *)
Get(b, slotID) ==
    LET s == slot(b, slotID)
    IN IF s.panic THEN [rec |-> <<>>, ok |-> FALSE, res |-> "panic"]
       ELSE IF ~s.ok \/ s.ln = 0
       THEN [rec |-> <<>>, ok |-> FALSE, res |-> "NotFound"]
       ELSE IF s.off + s.ln > Len(b)
       THEN [rec |-> <<>>, ok |-> FALSE, res |-> "panic"]
       ELSE [rec |-> SubSeq(b, s.off + 1, s.off + s.ln), ok |-> TRUE,
             res |-> "ok"]

(* Delete: the buffer afterwards and the outcome *)

\* a slip: the tombstone also clears the slot's offset
Delete_ClearsOffset(b, slotID) ==
    LET s == slot(b, slotID)
    IN IF s.panic THEN [buf |-> b, res |-> "panic"]
       ELSE IF ~s.ok \/ s.ln = 0
       THEN [buf |-> b, res |-> "NotFound"]
       ELSE LET t == setSlot(b, slotID, 0, 0)
            IN [buf |-> t.buf, res |-> IF t.panic THEN "panic" ELSE "ok"]

\* a slip: deleting the lowest-addressed record gives its bytes back
Delete_Reclaims(b, slotID) ==
    LET s == slot(b, slotID)
    IN IF s.panic THEN [buf |-> b, res |-> "panic"]
       ELSE IF ~s.ok \/ s.ln = 0
       THEN [buf |-> b, res |-> "NotFound"]
       ELSE LET t == setSlot(b, slotID, s.off, 0)
            IN [buf |-> IF s.off = freeEnd(b)
                        THEN setFreeEnd(t.buf, U16(s.off + s.ln))
                        ELSE t.buf,
                res |-> IF t.panic THEN "panic" ELSE "ok"]

Delete(b, slotID) ==
    LET s == slot(b, slotID)
    IN IF s.panic THEN [buf |-> b, res |-> "panic"]
       ELSE IF ~s.ok \/ s.ln = 0
       THEN [buf |-> b, res |-> "NotFound"]
       ELSE LET t == setSlot(b, slotID, s.off, 0)
            IN [buf |-> t.buf, res |-> IF t.panic THEN "panic" ELSE "ok"]

(* Update: Delete, then Insert; slot is the ID the internal Insert used *)
Update(b, slotID, rec) ==
    LET d == Delete(b, slotID)
    IN IF d.res # "ok"
       THEN [buf |-> d.buf, slot |-> -1, res |-> d.res]
       ELSE Insert(d.buf, rec)

----------------------------------------------------------------------------
(* The heap page as a state machine: a caller wraps an all-zero buffer and *)
(* then calls Insert, Get, Delete and Update in any order.                 *)

\* make([]byte, n), n <= 65536
ZeroBytes == [k \in 1..TwoTo16 |-> 0]

ZeroBuf(n) == SubSeq(ZeroBytes, 1, n)

SlotArgs == -1..MaxSlotArg

NoCall == [op |-> "NewHeapPage", slotArg |-> -1, rec |-> EmptyRecord,
           res |-> "ok", slot |-> -1, got |-> <<>>]

HeapInit ==
    /\ buf = NewHeapPage(ZeroBuf(BufLen))
    /\ pre = NewHeapPage(ZeroBuf(BufLen))
    /\ last = NoCall
    /\ issued = <<>>

\* the same over a buffer of 64 KiB, the smallest length that
\* uint16(len(buf)) does not hold
WideHeapInit ==
    /\ buf = NewHeapPage(ZeroBuf(TwoTo16))
    /\ pre = NewHeapPage(ZeroBuf(TwoTo16))
    /\ last = NoCall
    /\ issued = <<>>

\* the same over a buffer of 65535 bytes, the longest whose length
\* uint16(len(buf)) holds
LongLen == TwoTo16 - 1

LongHeapInit ==
    /\ buf = NewHeapPage(ZeroBuf(LongLen))
    /\ pre = NewHeapPage(ZeroBuf(LongLen))
    /\ last = NoCall
    /\ issued = <<>>

\* the records tried on the page b: on the long page, where records of a
\* few bytes fit by the thousand, only those that all but fill it
RecordsFor(b) == IF Len(b) = LongLen THEN NearRecords ELSE Records

DoInsert ==
    \E rec \in RecordsFor(buf) :
        LET r == Insert(buf, rec)
        IN /\ buf' = r.buf
           /\ pre' = buf
           /\ last' = [op |-> "Insert", slotArg |-> -1, rec |-> rec,
                       res |-> r.res, slot |-> r.slot, got |-> <<>>]
           /\ issued' = IF r.res = "ok" THEN Append(issued, r.slot) ELSE issued
           /\ UNCHANGED pagerVars

DoGet ==
    \E s \in SlotArgs :
        LET r == Get(buf, s)
        IN /\ buf' = buf
           /\ pre' = buf
           /\ last' = [op |-> "Get", slotArg |-> s, rec |-> NoCall.rec,
                       res |-> r.res, slot |-> -1, got |-> r.rec]
           /\ issued' = issued
           /\ UNCHANGED pagerVars

DoDelete ==
    \E s \in SlotArgs :
        LET r == Delete(buf, s)
        IN /\ buf' = r.buf
           /\ pre' = buf
           /\ last' = [op |-> "Delete", slotArg |-> s, rec |-> NoCall.rec,
                       res |-> r.res, slot |-> -1, got |-> <<>>]
           /\ issued' = issued
           /\ UNCHANGED pagerVars

DoUpdate ==
    \E s \in SlotArgs, rec \in RecordsFor(buf) :
        LET r == Update(buf, s, rec)
        IN /\ buf' = r.buf
           /\ pre' = buf
           /\ last' = [op |-> "Update", slotArg |-> s, rec |-> rec,
                       res |-> r.res, slot |-> r.slot, got |-> <<>>]
           /\ issued' = IF r.res = "ok" THEN Append(issued, r.slot) ELSE issued
           /\ UNCHANGED pagerVars

\* NewHeapPage again, over the buffer as the calls so far have left it
DoNewHeapPage ==
    /\ buf' = NewHeapPage(buf)
    /\ pre' = buf
    /\ last' = [NoCall EXCEPT !.op = "NewHeapPage again"]
    /\ issued' = issued
    /\ UNCHANGED pagerVars

----------------------------------------------------------------------------
(* int64 arithmetic.  A value is its two's complement as four 16-bit       *)
(* limbs, least significant first, so that pageID * pageSize wraps as in   *)
(* Go.                                                                     *)

\* the int64 of an integer n with |n| < 2^31
I64(n) ==
    LET q0 == n \div TwoTo16
        q1 == q0 \div TwoTo16
    IN <<n % TwoTo16, q0 % TwoTo16, q1 % TwoTo16, q1 % TwoTo16>>

\* x * k and x + k for 0 <= k < 2^14, modulo 2^64
Mul64(x, k) ==
    LET p1 == x[1] * k
        p2 == x[2] * k + (p1 \div TwoTo16)
        p3 == x[3] * k + (p2 \div TwoTo16)
        p4 == x[4] * k + (p3 \div TwoTo16)
    IN <<p1 % TwoTo16, p2 % TwoTo16, p3 % TwoTo16, p4 % TwoTo16>>

Add64(x, k) ==
    LET p1 == x[1] + k
        p2 == x[2] + (p1 \div TwoTo16)
        p3 == x[3] + (p2 \div TwoTo16)
        p4 == x[4] + (p3 \div TwoTo16)
    IN <<p1 % TwoTo16, p2 % TwoTo16, p3 % TwoTo16, p4 % TwoTo16>>

Neg64(x) == x[4] >= TwoTo16 \div 2

\* 0 <= x < 2^30: x is its value Val64(x)
Small64(x) == x[3] = 0 /\ x[4] = 0 /\ x[2] < TwoTo16 \div 4

Val64(x) == x[1] + TwoTo16 * x[2]

\* x >= n and n >= x for an int64 x and 0 <= n < 2^30
Ge64(x, n) == ~Neg64(x) /\ (Small64(x) => Val64(x) >= n)

Le64(x, n) == Neg64(x) \/ (Small64(x) /\ Val64(x) <= n)

----------------------------------------------------------------------------
(* The page file manager *)

\* Open accepts the positive multiples of this
sectorSize == 512

\* pages the volume has room for: growing a file past it fails
DiskPages == 2
\* length of the file that exists at the path before the first Open
ExistingLen == 100
\* ReadAt/WriteAt move a page in this many pieces
IOChunks == 2

Threads == {"t1", "t2"}

\* a WritePage buffer carries a tag that decides its bytes
Tags == {1, 2}

NoThread == "none"

\* page sizes handed to Open
OpenSizes == {0, 100, sectorSize}

MaxFileLen == DiskPages * sectorSize

\* page IDs handed to ReadPage/WritePage: -1, the pages of the volume, the
\* first page past it, and 2^55, whose offset wraps to 0 for pageSize 512
PageIDs == {I64(i) : i \in -1..DiskPages} \cup {<<0, 0, 0, 128>>}

\* buffers handed to WritePage: length n, byte i decided by the tag
WriteBufs ==
    {[n |-> sectorSize, tag |-> g] : g \in Tags} \cup
    {[n |-> sectorSize - 1, tag |-> 1]}

\* buf[i] of a WritePage buffer, Go index i: never 0, different for
\* different tags at every i, and not constant in i
BufAt(b, i) == 1 + ((3 * b.tag + i) % 7) + 8 * b.tag

\* the bytes of the buffers of each tag, at full length
TagBytes == [g \in Tags |->
                [k \in 1..sectorSize |-> BufAt([n |-> sectorSize, tag |-> g], k - 1)]]

BufBytes(b) == SubSeq(TagBytes[b.tag], 1, b.n)

ZeroPage == [k \in 1..sectorSize |-> 0]

\* n zero bytes, n <= sectorSize
Zeros(n) == SubSeq(ZeroPage, 1, n)

NoBuf == [n |-> 0, tag |-> 0]

ExistingFile == [k \in 1..ExistingLen |-> 255]

\* the first and the last (exclusive) Go index of piece k of a transfer of
\* n bytes
ChunkLo(n, k) == (k * n) \div IOChunks
ChunkHi(n, k) == ((k + 1) * n) \div IOChunks

NoWatch == [pageID |-> I64(0), off |-> 0, buf |-> NoBuf, by |-> NoThread,
            flushed |-> FALSE, reopened |-> FALSE]

\* a thread outside any call.  In a call, file0 is the file as the call
\* found it when it took the mutex.
Idle == [pc |-> "idle", op |-> "none", pageID |-> I64(0), wbuf |-> NoBuf,
         off |-> I64(0), k |-> 0, rbuf |-> <<>>, snap |-> <<>>,
         file0 |-> <<>>, res |-> "none"]

\* the file's bytes [off, off+n), zero where the file has ended
PageAt(f, off, n) ==
    LET have == IF off >= Len(f) THEN 0 ELSE Min(n, Len(f) - off)
    IN SubSeq(f, off + 1, off + have) \o Zeros(n - have)

\* os.File.Stat
Stat == IF pager.f = "open" THEN [err |-> "none", size |-> Len(file)]
        ELSE [err |-> "ErrClosed", size |-> 0]

\* os.File.Truncate(n): the outcome and the file afterwards
Truncate(n) ==
    IF pager.f # "open" THEN [err |-> "ErrClosed", file |-> file]
    ELSE IF Neg64(n) \/ ~Small64(n) \/ Val64(n) > MaxFileLen
    THEN [err |-> "IOError", file |-> file]
    ELSE [err |-> "none",
          file |-> IF Val64(n) <= Len(file) THEN SubSeq(file, 1, Val64(n))
                   ELSE file \o [k \in 1..(Val64(n) - Len(file)) |-> 0]]

\* the file after writing data[lo+1..hi] at byte offset off+lo
WriteChunk(f, off, data, lo, hi) ==
    LET gap == IF off + lo > Len(f) THEN off + lo - Len(f) ELSE 0
    IN SubSeq(f, 1, off + lo) \o [k \in 1..gap |-> 0]
         \o SubSeq(BufBytes(data), lo + 1, hi)
         \o SubSeq(f, off + hi + 1, Len(f))

\* the buffer after reading the file's bytes [off+lo, off+hi) into it
ReadChunk(b, f, off, lo, hi) ==
    LET have == IF off + lo >= Len(f) THEN 0 ELSE Min(hi - lo, Len(f) - off - lo)
    IN SubSeq(b, 1, lo) \o SubSeq(f, off + lo + 1, off + lo + have)
         \o SubSeq(b, lo + have + 1, Len(b))

\* off := pageID * int64(p.pageSize), in ReadPage and in WritePage
ReadOff(pageID) == Mul64(pageID, pager.pageSize)

\* a slip: pages counted from 1
WriteOff_FromOne(pageID) == Mul64(Add64(pageID, 1), pager.pageSize)

WriteOff(pageID) == Mul64(pageID, pager.pageSize)

\* a slip: the mutex is never waited for
Lock_NoWait(t) == mu' = t

\* p.mu.Lock()
Lock(t) == mu = NoThread /\ mu' = t

\* the thread moves on; other threads and the heap page stay
Step(t, new) == /\ th' = [th EXCEPT ![t] = new]
                /\ UNCHANGED heapVars

Fail(t, err) == [th[t] EXCEPT !.pc = "ret", !.res = err]

PagerInit ==
    /\ file \in {<<>>, ExistingFile}
    /\ pager = [f |-> "nil", pageSize |-> 0]
    /\ mu = NoThread
    /\ th = [t \in Threads |-> Idle]
    /\ watch = NoWatch

(* Open(path, pageSize), called when no handle on the path is in use *)
Open ==
    \E ps \in OpenSizes :
        /\ pager.f # "open"
        /\ \A t \in Threads : th[t].pc = "idle"
        /\ IF ps <= 0 \/ ps % sectorSize # 0
           THEN /\ pager' = [f |-> "nil", pageSize |-> 0]
                /\ UNCHANGED <<mu, watch>>
           ELSE /\ pager' = [f |-> "open", pageSize |-> ps]
                /\ mu' = NoThread
                /\ watch' = IF watch = NoWatch THEN watch
                            ELSE [watch EXCEPT !.reopened = TRUE]
        /\ UNCHANGED <<file, th>>
        /\ UNCHANGED heapVars

(* Close(): p.f.Close(), without the mutex *)
Close(t) ==
    /\ th[t].pc = "idle"
    /\ pager.f # "nil"
    /\ pager' = [pager EXCEPT !.f = "closed"]
    /\ UNCHANGED <<file, mu, th, watch>>
    /\ UNCHANGED heapVars

(* ReadPage(pageID) *)
ReadPageLock(t) ==
    \E id \in PageIDs :
        /\ th[t].pc = "idle"
        /\ pager.f # "nil"
        /\ Lock(t)
        /\ Step(t, [Idle EXCEPT !.pc = "r_stat", !.op = "ReadPage",
                                !.pageID = id, !.file0 = file])
        /\ UNCHANGED <<file, pager, watch>>

\* the pageID test, off, buf, p.f.Stat() and the test off >= st.Size()
ReadPageStat(t) ==
    /\ th[t].pc = "r_stat"
    /\ LET off == ReadOff(th[t].pageID)
           me == [th[t] EXCEPT !.off = off,
                               !.rbuf = Zeros(pager.pageSize),
                               !.snap = IF Small64(off)
                                        THEN PageAt(file, Val64(off),
                                                    pager.pageSize)
                                        ELSE <<>>]
       IN Step(t, IF Neg64(th[t].pageID) THEN Fail(t, "InvalidArgument")
                  ELSE IF Stat.err # "none"
                  THEN [me EXCEPT !.pc = "ret", !.res = Stat.err]
                  ELSE IF Ge64(off, Stat.size)
                  THEN [me EXCEPT !.pc = "r_ensure"]
                  ELSE [me EXCEPT !.pc = "r_read"])
    /\ UNCHANGED <<file, pager, mu, watch>>

\* ensureSize(off + pageSize): its Stat and the test st.Size() >= n
ReadPageEnsure(t) ==
    /\ th[t].pc = "r_ensure"
    /\ Step(t, IF Stat.err # "none" THEN Fail(t, Stat.err)
               ELSE IF Le64(Add64(th[t].off, pager.pageSize), Stat.size)
               THEN [th[t] EXCEPT !.pc = "ret", !.res = "ok"]
               ELSE [th[t] EXCEPT !.pc = "r_trunc"])
    /\ UNCHANGED <<file, pager, mu, watch>>

\* ensureSize: p.f.Truncate(n); then ReadPage returns the zero buffer
ReadPageTruncate(t) ==
    /\ th[t].pc = "r_trunc"
    /\ LET r == Truncate(Add64(th[t].off, pager.pageSize))
       IN /\ file' = r.file
          /\ Step(t, IF r.err # "none" THEN Fail(t, r.err)
                     ELSE [th[t] EXCEPT !.pc = "ret", !.res = "ok"])
    /\ UNCHANGED <<pager, mu, watch>>

\* p.f.ReadAt(buf, off), piece by piece; io.EOF is not an error
ReadPageReadAt(t) ==
    /\ th[t].pc = "r_read"
    /\ LET me == th[t]
           n == Len(me.rbuf)
           done == me.k + 1 = IOChunks
       IN Step(t, IF me.k = 0 /\ Neg64(me.off) THEN Fail(t, "IOError")
                  ELSE IF me.k = 0 /\ pager.f # "open"
                  THEN Fail(t, "ErrClosed")
                  ELSE [me EXCEPT
                          !.rbuf = IF Small64(me.off)
                                   THEN ReadChunk(me.rbuf, file, Val64(me.off),
                                                  ChunkLo(n, me.k),
                                                  ChunkHi(n, me.k))
                                   ELSE me.rbuf,
                          !.k = me.k + 1,
                          !.pc = IF done THEN "ret" ELSE "r_read",
                          !.res = IF done THEN "ok" ELSE "none"])
    /\ UNCHANGED <<file, pager, mu, watch>>

(* WritePage(pageID, buf) *)
WritePageLock(t) ==
    \E id \in PageIDs, b \in WriteBufs :
        /\ th[t].pc = "idle"
        /\ pager.f # "nil"
        /\ Lock(t)
        /\ Step(t, [Idle EXCEPT !.pc = "w_stat", !.op = "WritePage",
                                !.pageID = id, !.wbuf = b,
                                !.file0 = file])
        /\ UNCHANGED <<file, pager, watch>>

\* the len(buf) test, off, and ensureSize's Stat and test
WritePageStat(t) ==
    /\ th[t].pc = "w_stat"
    /\ LET off == WriteOff(th[t].pageID)
           me == [th[t] EXCEPT !.off = off]
       IN Step(t, IF th[t].wbuf.n # pager.pageSize
                  THEN Fail(t, "InvalidArgument")
                  ELSE IF Stat.err # "none"
                  THEN [me EXCEPT !.pc = "ret", !.res = Stat.err]
                  ELSE IF Le64(Add64(off, pager.pageSize), Stat.size)
                  THEN [me EXCEPT !.pc = "w_write"]
                  ELSE [me EXCEPT !.pc = "w_trunc"])
    /\ UNCHANGED <<file, pager, mu, watch>>

\* ensureSize: p.f.Truncate(n)
WritePageTruncate(t) ==
    /\ th[t].pc = "w_trunc"
    /\ LET r == Truncate(Add64(th[t].off, pager.pageSize))
       IN /\ file' = r.file
          /\ Step(t, IF r.err # "none" THEN Fail(t, r.err)
                     ELSE [th[t] EXCEPT !.pc = "w_write"])
    /\ UNCHANGED <<pager, mu, watch>>

\* the values watch may take when thread t's WritePage(pageID, b) has put
\* b at byte offset off: the call just completed, or the call watched so
\* far if this one left its bytes alone
Rewatch(t, pageID, off, b) ==
    {[pageID |-> pageID, off |-> off, buf |-> b, by |-> t,
      flushed |-> FALSE, reopened |-> FALSE]} \cup
    {w \in {watch} : /\ w # NoWatch
                     /\ (w.off + w.buf.n <= off \/ off + b.n <= w.off)}

\* p.f.WriteAt(buf, off), piece by piece
WritePageWriteAt(t) ==
    /\ th[t].pc = "w_write"
    /\ LET me == th[t]
           n == me.wbuf.n
           done == me.k + 1 = IOChunks
           bad == IF Neg64(me.off) THEN "IOError"
                  ELSE IF pager.f # "open" THEN "ErrClosed"
                  ELSE IF ~Small64(me.off) \/ Val64(me.off) + n > MaxFileLen
                  THEN "IOError"
                  ELSE "none"
       IN IF me.k = 0 /\ bad # "none"
          THEN /\ Step(t, Fail(t, bad))
               /\ UNCHANGED <<file, watch>>
          ELSE /\ file' = WriteChunk(file, Val64(me.off), me.wbuf,
                                     ChunkLo(n, me.k), ChunkHi(n, me.k))
               /\ watch' \in IF done
                              THEN Rewatch(t, me.pageID, Val64(me.off), me.wbuf)
                              ELSE {watch}
               /\ Step(t, [me EXCEPT !.k = me.k + 1,
                                     !.pc = IF done THEN "ret" ELSE "w_write",
                                     !.res = IF done THEN "ok" ELSE "none"])
    /\ UNCHANGED <<pager, mu>>

(* Flush() *)
FlushLock(t) ==
    /\ th[t].pc = "idle"
    /\ pager.f # "nil"
    /\ Lock(t)
    /\ Step(t, [Idle EXCEPT !.pc = "f_sync", !.op = "Flush",
                                !.file0 = file])
    /\ UNCHANGED <<file, pager, watch>>

\* p.f.Sync()
FlushSync(t) ==
    /\ th[t].pc = "f_sync"
    /\ IF pager.f # "open"
       THEN /\ Step(t, Fail(t, "ErrClosed"))
            /\ UNCHANGED watch
       ELSE /\ Step(t, [th[t] EXCEPT !.pc = "ret", !.res = "ok"])
            /\ watch' = IF watch = NoWatch THEN watch
                        ELSE [watch EXCEPT !.flushed = TRUE]
    /\ UNCHANGED <<file, pager, mu>>

(* defer p.mu.Unlock() and the return to the caller *)
Return(t) ==
    /\ th[t].pc = "ret"
    /\ mu' = NoThread
    /\ Step(t, Idle)
    /\ UNCHANGED <<file, pager, watch>>

PagerIdle ==
    /\ file = <<>>
    /\ pager = [f |-> "nil", pageSize |-> 0]
    /\ mu = NoThread
    /\ th = [t \in Threads |-> Idle]
    /\ watch = NoWatch

----------------------------------------------------------------------------
(* Specifications *)

\* the heap page alone
Init == (HeapInit \/ WideHeapInit) /\ PagerIdle

Next == DoInsert \/ DoGet \/ DoDelete \/ DoUpdate \/ DoNewHeapPage

Spec == Init /\ [][Next]_vars

\* the heap page of 65535 bytes
LongInit == LongHeapInit /\ PagerIdle

LongSpec == LongInit /\ [][Next]_vars

\* the page file manager alone, called from the threads of Threads
PagerSpecInit == HeapInit /\ PagerInit

PagerNext ==
    \/ Open
    \/ \E t \in Threads : Close(t)
    \/ \E t \in Threads : ReadPageLock(t)
    \/ \E t \in Threads : ReadPageStat(t)
    \/ \E t \in Threads : ReadPageEnsure(t)
    \/ \E t \in Threads : ReadPageTruncate(t)
    \/ \E t \in Threads : ReadPageReadAt(t)
    \/ \E t \in Threads : WritePageLock(t)
    \/ \E t \in Threads : WritePageStat(t)
    \/ \E t \in Threads : WritePageTruncate(t)
    \/ \E t \in Threads : WritePageWriteAt(t)
    \/ \E t \in Threads : FlushLock(t)
    \/ \E t \in Threads : FlushSync(t)
    \/ \E t \in Threads : Return(t)

PagerSpec == PagerSpecInit /\ [][PagerNext]_vars

-----
(* Properties of the heap page *)

FreshPage == NewHeapPage(ZeroBuf(BufLen))

\* the slots of b that Get finds
LiveSlots(b) == {i \in 0..(slotCount(b) - 1) : Get(b, i).ok}

\* the Go indices at which two buffers of one length differ
Diff(a, b) ==
    IF a = b THEN {} ELSE {i \in 0..(Len(a) - 1) : a[i + 1] # b[i + 1]}

\* C2: a successful Insert(R) that returns slot s is followed by Get(s)
\* returning found with exactly the bytes of R (records of any length, the
\* empty record included), and on a fresh page the slot returned is 0.
C2_InsertGetRoundTrip ==
    (last.op = "Insert" /\ last.res = "ok") =>
        /\ Get(buf, last.slot).ok
        /\ SameBytes(Get(buf, last.slot).rec, last.rec)
        /\ (pre = FreshPage => last.slot = 0)

\* C3: an operation that returns an error leaves the buffer byte-for-byte
\* unchanged; after a failed Update(s, R2), Get(s) still returns the old
\* record.
C3_NoHalfAppliedMutation ==
    (last.res \in {"PageFull", "NotFound"}) =>
        /\ buf = pre
        /\ (last.op = "Update" => Get(buf, last.slotArg) = Get(pre, last.slotArg))

\* C4: Insert(record) fails with PageFull if and only if
\* freeEnd - freeStart < len(record) + slotEntrySize, the sum taken in the
\* integers, for records of every length.
C4_FullnessTestExact ==
    (last.op = "Insert") =>
        ((last.res = "PageFull") <=>
            (freeEnd(pre) - freeStart(pre) < RecLen(last.rec) + slotSize))

\* C5: when Insert fails with PageFull, the header, the slot directory and
\* the record bytes are unchanged, and every slot that was live before still
\* returns the same bytes from Get.
C5_FailedInsertNoEffect ==
    (last.op = "Insert" /\ last.res = "PageFull") =>
        /\ slotCount(buf) = slotCount(pre)
        /\ freeStart(buf) = freeStart(pre)
        /\ freeEnd(buf) = freeEnd(pre)
        /\ Diff(pre, buf) = {}
        /\ \A s \in LiveSlots(pre) : Get(buf, s) = Get(pre, s)

C5_Witness ==
    /\ last.op = "Insert" /\ last.res = "PageFull"
    /\ Cardinality(LiveSlots(pre)) >= 2

\* C6: after a successful Delete(s), Get(s) returns not-found; the only
\* bytes that change are the length field of slot s, now 0; the slot keeps
\* its offset, the record bytes stay, the header is unchanged, and Get(t) of
\* every other live slot t returns the same bytes as before.
C6_DeleteIsTombstone ==
    (last.op = "Delete" /\ last.res = "ok") =>
        LET s == last.slotArg
            base == hdrSize + s * slotSize
        IN /\ ~Get(buf, s).ok
           /\ Diff(pre, buf) \subseteq {base + 2, base + 3}
           /\ slot(buf, s).ln = 0
           /\ slot(buf, s).off = slot(pre, s).off
           /\ SubSeq(buf, slot(pre, s).off + 1, slot(pre, s).off + slot(pre, s).ln)
                = Get(pre, s).rec
           /\ slotCount(buf) = slotCount(pre)
           /\ freeStart(buf) = freeStart(pre)
           /\ freeEnd(buf) = freeEnd(pre)
           /\ freeSpace(buf) = freeSpace(pre)
           /\ \A t \in LiveSlots(pre) \ {s} : Get(buf, t) = Get(pre, t)

C6_Witness ==
    /\ last.op = "Delete" /\ last.res = "ok"
    /\ LiveSlots(pre) \ {last.slotArg} # {}
    /\ Diff(pre, buf) # {}

\* C7: when Update(s, R2) succeeds, R2 is stored under the slot ID equal to
\* slotCount before the call (Get of that ID returns R2), slotCount grows by
\* exactly 1, and Get(s) returns not-found.
C7_UpdateIdentityDrift ==
    (last.op = "Update" /\ last.res = "ok") =>
        /\ Get(buf, slotCount(pre)).ok
        /\ SameBytes(Get(buf, slotCount(pre)).rec, last.rec)
        /\ slotCount(buf) = slotCount(pre) + 1
        /\ ~Get(buf, last.slotArg).ok

\* C8: the k-th successful insertion (Update's internal insert counted)
\* uses slot ID k-1, slotCount never decreases, and no slot ID is handed
\* out twice.
C8_SlotIdsDense ==
    /\ \A k \in 1..Len(issued) : issued[k] = k - 1
    /\ \A j, k \in 1..Len(issued) : j # k => issued[j] # issued[k]
    /\ slotCount(buf) >= slotCount(pre)
    /\ slotCount(buf) = Len(issued)

C8_Witness ==
    /\ last.op = "Insert" /\ last.res = "ok"
    /\ Len(issued) >= 3
    /\ \E i \in 0..(slotCount(pre) - 1) : slot(pre, i).ln = 0 /\ i # last.slot

\* C9: from one step to the next, whatever the call and its outcome,
\* freeStart does not decrease and freeEnd does not increase.
C9_FreeRegionMonotone ==
    /\ freeStart(buf) >= freeStart(pre)
    /\ freeEnd(buf) <= freeEnd(pre)

C9_Witness ==
    /\ last.op = "Delete" /\ last.res = "ok"
    /\ slot(pre, last.slotArg).off = freeEnd(pre)
    /\ freeEnd(buf) < BufLen

----------------------------------------------------------------------------
(* Properties of the page file manager *)

\* thread t is about to return from a successful ReadPage
ReadDone(t) ==
    th[t].pc = "ret" /\ th[t].op = "ReadPage" /\ th[t].res = "ok"

\* the WritePage buffers of the handle's page size
PageBufs == {b \in WriteBufs : b.n = pager.pageSize}

\* C1: after WritePage(pageID, B) has succeeded and Flush() has been
\* called, ReadPage(pageID) returns exactly B, whatever calls came before
\* and whatever calls that write no byte of the page came in between, also
\* after Close and a new Open.
C1_PageRoundTrip ==
    \A t \in Threads :
        (ReadDone(t) /\ watch # NoWatch /\ watch.pageID = th[t].pageID
            /\ watch.flushed /\ watch.buf.n = pager.pageSize)
        => th[t].rbuf = BufBytes(watch.buf)

\* the round trip of page 0 across Close and Open, page 1 written meanwhile
C1_Witness ==
    \E t \in Threads :
        /\ ReadDone(t) /\ watch # NoWatch /\ watch.pageID = th[t].pageID
        /\ watch.flushed /\ watch.reopened
        /\ th[t].rbuf = BufBytes(watch.buf)
        /\ watch.off = 0
        /\ \E b \in PageBufs : PageAt(file, pager.pageSize, pager.pageSize) = BufBytes(b)

\* C10: ReadPage, WritePage and Flush on one handle take effect one at a
\* time, in the order in which they get the mutex: at most one of them is
\* between its Lock and its Unlock, and a successful ReadPage returns the
\* page as it was when it began, which is the page as the file had
\* it at first or the whole buffer of one WritePage, never a mixture.
C10_NoTornPage ==
    /\ \A t, u \in Threads : (th[t].pc # "idle" /\ th[u].pc # "idle") => t = u
    /\ \A t \in Threads : th[t].pc # "idle" => mu = t
    /\ \A t \in Threads : ReadDone(t) =>
        /\ th[t].rbuf = th[t].snap
        /\ \/ th[t].rbuf = PageAt(<<>>, 0, pager.pageSize)
           \/ th[t].rbuf = PageAt(ExistingFile, Val64(th[t].off), pager.pageSize)
           \/ \E b \in PageBufs : th[t].rbuf = BufBytes(b)

C10_Witness ==
    \E t \in Threads :
        /\ ReadDone(t) /\ watch # NoWatch /\ watch.pageID = th[t].pageID
        /\ watch.by # t
        /\ th[t].rbuf = BufBytes(watch.buf)
        /\ watch.buf.tag = 2

\* thread t is about to return from a call
Returning(t) == th[t].pc = "ret"

\* C11: Close waits for the mutex like the other operations, so a Close
\* never takes effect between two steps of another thread's ReadPage,
\* WritePage or Flush: a call that fails because the handle is closed has
\* left the length and the bytes of the file as it found them, and never
\* a file that WritePage has grown before its data write failed.
C11_CloseSerialized ==
    \A t \in Threads :
        (Returning(t) /\ th[t].res = "ErrClosed") => file = th[t].file0

\* page pageID begins at or after byte n: pageID * pageSize >= n in the
\* integers, for pageID >= 0
BeyondExtent(pageID, n) ==
    /\ ~Neg64(pageID)
    /\ Ge64(pageID, (n + pager.pageSize - 1) \div pager.pageSize)

\* the file f grown with zero bytes only, to at least n bytes
GrownWithZeros(f0, f, n) ==
    /\ Len(f) >= n /\ Len(f) >= Len(f0)
    /\ SubSeq(f, 1, Len(f0)) = f0
    /\ \A k \in (Len(f0) + 1)..Len(f) : f[k] = 0

\* C12: a ReadPage(pageID) with pageID*pageSize at or past the end of the
\* file returns pageSize zero bytes, leaves the file at least
\* (pageID+1)*pageSize long with every byte it had unchanged and the new
\* bytes zero, and the page reads as zeros again afterwards.
C12_LazyAllocationOnRead ==
    \A t \in Threads :
        (ReadDone(t) /\ BeyondExtent(th[t].pageID, Len(th[t].file0))) =>
            /\ th[t].rbuf = Zeros(pager.pageSize)
            /\ Small64(th[t].off)
            /\ GrownWithZeros(th[t].file0, file,
                              Val64(th[t].off) + pager.pageSize)
            /\ PageAt(file, Val64(th[t].off), pager.pageSize)
                   = Zeros(pager.pageSize)

\* the same for the page IDs whose offset the volume has room for
C12_InRange ==
    \A t \in Threads :
        (ReadDone(t) /\ BeyondExtent(th[t].pageID, Len(th[t].file0))
            /\ Le64(th[t].pageID, DiskPages)) =>
            /\ th[t].rbuf = Zeros(pager.pageSize)
            /\ GrownWithZeros(th[t].file0, file,
                              Val64(th[t].off) + pager.pageSize)

\* thread t is about to return from a successful WritePage
WriteDone(t) ==
    th[t].pc = "ret" /\ th[t].op = "WritePage" /\ th[t].res = "ok"

\* page j of the file f as ReadPage(j) returns it: bytes
\* [j*pageSize, (j+1)*pageSize), zeros where the file has ended
PageOf(f, j) == PageAt(f, j * pager.pageSize, pager.pageSize)

\* C13: a successful WritePage(pageID, B), for any pageID >= 0 of the
\* int64 range, leaves every other page j # pageID reading as it read
\* before (a page created by growth reads as zeros before and after):
\* distinct page IDs never share bytes, also when pageID*pageSize is
\* beyond the int64 range.
C13_WriteTouchesOwnPage ==
    \A t \in Threads :
        (WriteDone(t) /\ ~Neg64(th[t].pageID)) =>
            \A j \in 0..DiskPages :
                I64(j) # th[t].pageID =>
                    PageOf(file, j) = PageOf(th[t].file0, j)

\* the same for the page IDs whose offset the volume has room for
C13_InRange ==
    \A t \in Threads :
        (WriteDone(t) /\ ~Neg64(th[t].pageID)
            /\ Le64(th[t].pageID, DiskPages)) =>
            \A j \in 0..DiskPages :
                I64(j) # th[t].pageID =>
                    PageOf(file, j) = PageOf(th[t].file0, j)

\* C14: while a handle exists, after Open of a new or of an existing file
\* and after any ReadPage, WritePage, Flush and Close, the length of the
\* file is a multiple of the handle's pageSize.
C14_LengthMultipleOfPageSize ==
    pager.f # "nil" => Len(file) % pager.pageSize = 0

\* the other half of C14: no step makes the file shorter
C14_NeverShrinks == [][Len(file') >= Len(file)]_vars

\* the call thread t is about to return from had an argument the
\* interface rejects: a negative page ID, or a WritePage buffer that is not
\* pageSize long
BadArgument(t) ==
    \/ th[t].op \in {"ReadPage", "WritePage"} /\ Neg64(th[t].pageID)
    \/ th[t].op = "WritePage" /\ th[t].wbuf.n # pager.pageSize

\* C15: ReadPage with pageID < 0, WritePage with pageID < 0 and WritePage
\* with len(buf) # pageSize each fail with InvalidArgument, not with an
\* I/O error, and leave the length and the bytes of the file unchanged.
C15_ArgumentValidation ==
    \A t \in Threads :
        (Returning(t) /\ BadArgument(t)) =>
            /\ th[t].res = "InvalidArgument"
            /\ file = th[t].file0

\* what the code does keep of C15: a call with a bad argument never
\* succeeds and never changes the file
C15_BadArgumentFailsCleanly ==
    \A t \in Threads :
        (Returning(t) /\ BadArgument(t)) =>
            /\ th[t].res # "ok"
            /\ file = th[t].file0

-----
(* More properties of the heap page *)

\* the header of b agrees with itself and with the buffer
HeaderConsistent(b) ==
    /\ hdrSize + slotCount(b) * slotSize = freeStart(b)
    /\ 0 <= freeStart(b)
    /\ freeStart(b) <= freeEnd(b)
    /\ freeEnd(b) <= Len(b)

\* C16: on a page constructed over an all-zero buffer of any accepted
\* length, after the construction and after every Insert, Get, Delete and
\* Update, headerSize + slotCount * slotEntrySize = freeStart and
\* 0 <= freeStart <= freeEnd <= len(buf).
C16_HeaderConsistency == HeaderConsistent(buf)

\* the same on the short page only
C16_ShortPage == Len(buf) = BufLen => HeaderConsistent(buf)

\* the Go indices of the record of slot i of b, none for a tombstone
Extent(b, i) ==
    {k \in 0..(Len(b) - 1) :
        slot(b, i).off <= k /\ k < slot(b, i).off + slot(b, i).ln}

\* the slots of b with a length above 0
Occupied(b) == {i \in 0..(slotCount(b) - 1) : slot(b, i).ln > 0}

\* C17: every slot with a length above 0 has its bytes
\* [offset, offset+length) inside [freeEnd, len(buf)), apart from those of
\* every other such slot and from the header and slot directory
\* [0, freeStart); and an Insert (that of Update too) changes no byte at or
\* above the freeEnd it found, where the records stored so far, live or
\* tombstoned, are.
C17_LiveRecordsDisjoint ==
    /\ \A i \in Occupied(buf) :
          /\ freeEnd(buf) <= slot(buf, i).off
          /\ slot(buf, i).off + slot(buf, i).ln <= Len(buf)
          /\ freeStart(buf) <= slot(buf, i).off
          /\ \A j \in Occupied(buf) \ {i} : Extent(buf, i) \cap Extent(buf, j) = {}
    /\ last.op \in {"Insert", "Update"} =>
          \A k \in Diff(pre, buf) : k < freeEnd(pre)

\* The calls of setSlot that a call on the page b makes: each with the
\* index i it passes and the buffer as setSlot finds it.

\* Insert calls setSlot once the fullness test has passed and the record
\* is copied, with slotCount and freeStart already advanced
InsertSetSlot(b, rec) ==
    LET newEnd == U16(freeEnd(b) - U16(RecLen(rec)))
        b1 == copy(b, newEnd, freeEnd(b), rec)
        b2 == setSlotCount(b1, U16(slotCount(b1) + 1))
        b3 == setFreeStart(b2, U16(freeStart(b2) + slotSize))
    IN IF freeSpace(b) < need(rec) \/ newEnd > freeEnd(b) \/ freeEnd(b) > Len(b)
       THEN {}
       ELSE {[buf |-> b3, i |-> slotCount(b1)]}

\* Delete calls setSlot on a slot that slot() has found with a length
DeleteSetSlot(b, slotID) ==
    LET s == slot(b, slotID)
    IN IF s.panic \/ ~s.ok \/ s.ln = 0
       THEN {}
       ELSE {[buf |-> b, i |-> slotID]}

UpdateSetSlot(b, slotID, rec) ==
    DeleteSetSlot(b, slotID) \cup
    (IF Delete(b, slotID).res = "ok"
     THEN InsertSetSlot(Delete(b, slotID).buf, rec) ELSE {})

\* those of the call that led to the current state
SetSlotCalls ==
    CASE last.op = "Insert" -> InsertSetSlot(pre, last.rec)
      [] last.op = "Delete" -> DeleteSetSlot(pre, last.slotArg)
      [] last.op = "Update" -> UpdateSetSlot(pre, last.slotArg, last.rec)
      [] OTHER -> {}

\* setSlot does not abort: i is in the range it accepts
IndexAccepted(c) == 0 <= c.i /\ c.i <= slotCount(c.buf)

\* C19: in every Insert, Delete and Update on a page constructed over an
\* all-zero buffer, whatever the slot IDs and the record lengths, setSlot
\* is called with an index in the range it accepts, so that it never
\* aborts, and the slot entry it writes lies inside the buffer and below
\* freeEnd.
C19_SetSlotNeverAborts ==
    \A c \in SetSlotCalls :
        /\ IndexAccepted(c)
        /\ hdrSize + (c.i + 1) * slotSize <= Len(c.buf)
        /\ hdrSize + (c.i + 1) * slotSize <= freeEnd(c.buf)

\* the first half of C19 alone
C19_IndexAccepted == \A c \in SetSlotCalls : IndexAccepted(c)

\* C18: a page just constructed over an all-zero buffer has slotCount 0,
\* freeStart 8, freeEnd len(buf) and flags 0, whatever the length of the
\* buffer from 8 bytes up, 65536 included, so that its free space is
\* len(buf) - 8.
C18_AutoInitialization ==
    last = NoCall =>
        /\ slotCount(buf) = 0
        /\ freeStart(buf) = hdrSize
        /\ freeEnd(buf) = Len(buf)
        /\ flags(buf) = 0
        /\ freeSpace(buf) = Len(buf) - hdrSize

\* C20: NewHeapPage over a buffer that an earlier NewHeapPage and any
\* Insert, Delete and Update calls have left does not initialise it again
\* and changes no byte of it, so that every Get returns what it returned
\* before.
C20_RewrapIdempotent ==
    last.op = "NewHeapPage again" =>
        /\ buf = pre
        /\ \A s \in SlotArgs : Get(buf, s) = Get(pre, s)

\* a page with a live record and a tombstone is wrapped again
C20_Witness ==
    /\ last.op = "NewHeapPage again"
    /\ LiveSlots(pre) # {}
    /\ \E i \in 0..(slotCount(pre) - 1) :
          slot(pre, i).ln = 0 /\ slot(pre, i).off < Len(pre)

====
